---------------------------- MODULE Spec2Model ----------------------------
(***************************************************************************)
(* Model of src/js/script.js: the LocalStorage cache (CacheManager), the   *)
(* six cached fetch-and-render loads of GitHubAPI, the paginated download  *)
(* aggregator and the numeric render (updateEl) with its 150 ms swap       *)
(* timers.                                                                 *)
(*                                                                         *)
(* Time is in milliseconds.  JavaScript values are tagged records, so that *)
(* null, undefined, numbers, strings, arrays and objects stay distinct.    *)
(***************************************************************************)
EXTENDS Integers, Sequences, FiniteSets, TLC

(***************************************************************************)
(* Bounds of the model.                                                    *)
(***************************************************************************)
MaxTicks == 3
MaxLoads == 2
MaxSrvPages == 21
MaxSets == 2
MaxCalls == 3
MaxClock == 8000
MaxCommits == 9
MaxContributors == 13

(***************************************************************************)
(* CONFIG (script.js 10-19) and the literals of the code.                  *)
(***************************************************************************)
CACHE_DURATION == 30 * 60 * 1000
RETENTION == 24 * 60 * 60 * 1000
PAGE_LIMIT == 20
DOWNLOADS_PLACEHOLDER == 1000000

(***************************************************************************)
(* JavaScript values.                                                      *)
(***************************************************************************)
Null == [t |-> "null"]
Undefined == [t |-> "undefined"]
Num(n) == [t |-> "num", n |-> n]
Str(s) == [t |-> "str", s |-> s]
Arr(a) == [t |-> "arr", a |-> a]
Obj(f) == [t |-> "obj", f |-> f]

IsNum(v) == v.t = "num"
IsObj(v) == v.t = "obj"
IsArr(v) == v.t = "arr"
IsNullish(v) == v.t \in {"null", "undefined"}

\* o.k : reading a property an object does not own yields undefined.
Get(o, k) == IF IsObj(o) /\ k \in DOMAIN o.f THEN o.f[k] ELSE Undefined

\* ToBoolean(v), as `if (cached)` and `a || b` apply it.
Truthy(v) ==
    CASE v.t = "null" -> FALSE
      [] v.t = "undefined" -> FALSE
      [] v.t = "num" -> v.n # 0
      [] v.t = "str" -> v.s # ""
      [] OTHER -> TRUE

\* JSON.stringify followed by JSON.parse: an object loses the properties whose
\* value is undefined, an array keeps its length with undefined turned to null.
RECURSIVE JsonRoundTrip(_)
JsonRoundTrip(v) ==
    CASE v.t = "obj" ->
           LET keep == {k \in DOMAIN v.f : v.f[k].t # "undefined"}
           IN  Obj([k \in keep |-> JsonRoundTrip(v.f[k])])
      [] v.t = "arr" ->
           Arr([i \in 1..Len(v.a) |->
                  IF v.a[i].t = "undefined" THEN Null ELSE JsonRoundTrip(v.a[i])])
      [] OTHER -> v

(***************************************************************************)
(* localStorage.  An item is absent (NoItem), text that JSON.parse rejects *)
(* (Corrupt), or the text JSON.stringify({data, timestamp}) produced,      *)
(* held as the object JSON.parse reads back from it.                       *)
(***************************************************************************)
NoItem == [t |-> "noitem"]
Corrupt == [t |-> "corrupt"]

CacheKeys ==
    {"repo_stats", "total_downloads", "commits", "contributors", "languages",
     "latest_release"}

\* JSON.stringify({data, timestamp: Date.now()})
EntryText(data, t) == JsonRoundTrip(Obj([k \in {"data", "timestamp"} |->
                                          IF k = "data" THEN data ELSE Num(t)]))

\* Date.now() - parsed.timestamp > limit; a missing timestamp gives NaN, and
\* every comparison with NaN is false.
OlderThan(parsed, t, limit) ==
    /\ IsNum(Get(parsed, "timestamp"))
    /\ t - Get(parsed, "timestamp").n > limit

\* The outcome of a CacheManager method: whether it threw to its caller, the
\* value it returned and the storage it left behind.
Returned(value, store) == [threw |-> FALSE, value |-> value, store |-> store]
Thrown(store) == [threw |-> TRUE, value |-> Undefined, store |-> store]

\* The statements inside the try of CacheManager.get (script.js 98-105).
\* mode "denied": every access to localStorage throws; "readonly": setItem
\* and removeItem throw; "quota": setItem throws.
TryGet(store, mode, key, t) ==
    IF mode = "denied" THEN Thrown(store)
    ELSE LET raw == store[key] IN
        IF raw = NoItem THEN Returned(Null, store)
        ELSE IF raw = Corrupt THEN Thrown(store)
        ELSE IF OlderThan(raw, t, CACHE_DURATION)
             THEN IF mode = "readonly" THEN Thrown(store)
                  ELSE Returned(Null, [store EXCEPT ![key] = NoItem])
        ELSE Returned(Get(raw, "data"), store)

\* Mutant of CacheManager.get: an entry exactly TTL old already counts as stale.
CacheGet_StaleAtTTL(store, mode, key, t) ==
    IF mode = "denied" THEN Returned(Null, store)
    ELSE LET raw == store[key] IN
        IF raw = NoItem THEN Returned(Null, store)
        ELSE IF raw = Corrupt THEN Returned(Null, store)
        ELSE IF OlderThan(raw, t, CACHE_DURATION - 1)
             THEN Returned(Null, [store EXCEPT ![key] = NoItem])
        ELSE Returned(Get(raw, "data"), store)

\* Mutant of CacheManager.get: a stale entry is reported absent but not removed.
CacheGet_KeepsStale(store, mode, key, t) ==
    IF mode = "denied" THEN Returned(Null, store)
    ELSE LET raw == store[key] IN
        IF raw = NoItem THEN Returned(Null, store)
        ELSE IF raw = Corrupt THEN Returned(Null, store)
        ELSE IF OlderThan(raw, t, CACHE_DURATION)
             THEN Returned(Null, store)
        ELSE Returned(Get(raw, "data"), store)

\* Mutant of CacheManager.get: the try has no catch.
CacheGet_NoCatch(store, mode, key, t) == TryGet(store, mode, key, t)

\* CacheManager.get: the catch returns null.
CacheGet(store, mode, key, t) ==
    LET r == TryGet(store, mode, key, t)
    IN  IF r.threw THEN Returned(Null, r.store) ELSE r

\* The statement inside the try of CacheManager.set (script.js 113-116).
TrySet(store, mode, key, data, t) ==
    IF mode \in {"denied", "quota", "readonly"} THEN Thrown(store)
    ELSE Returned(Undefined, [store EXCEPT ![key] = EntryText(data, t)])

\* CacheManager.set, as an outcome: the catch logs only.
SetOutcome(store, mode, key, data, t) ==
    LET r == TrySet(store, mode, key, data, t)
    IN  IF r.threw THEN Returned(Undefined, r.store) ELSE r

\* CacheManager.set: the storage it leaves behind.
CacheSet(store, mode, key, data, t) == SetOutcome(store, mode, key, data, t).store

\* Mutant of clearOld: the sweep uses the TTL of get as its window.
TrySweep_UsesTTL(store, mode, key, t) ==
    IF store[key] = Corrupt THEN Thrown(store)
    ELSE IF OlderThan(store[key], t, CACHE_DURATION)
         THEN IF mode = "readonly" THEN Thrown(store)
              ELSE Returned(Undefined, [store EXCEPT ![key] = NoItem])
    ELSE Returned(Undefined, store)

\* The inner try of CacheManager.clearOld for one key (script.js 127-131).
TrySweep(store, mode, key, t) ==
    IF store[key] = Corrupt THEN Thrown(store)
    ELSE IF OlderThan(store[key], t, RETENTION)
         THEN IF mode = "readonly" THEN Thrown(store)
              ELSE Returned(Undefined, [store EXCEPT ![key] = NoItem])
    ELSE Returned(Undefined, store)

\* The forEach callback: the inner catch skips the key.
SweepKey(store, mode, key, t) ==
    IF store[key] = NoItem THEN store ELSE TrySweep(store, mode, key, t).store

\* CacheManager.clearOld, as an outcome: Object.keys(localStorage) throws in
\* mode "denied" and the outer catch skips the sweep; every key of the model
\* carries CACHE_PREFIX, and the callback for one key leaves the others alone.
SweepOutcome(store, mode, t) ==
    IF mode = "denied" THEN Returned(Undefined, store)
    ELSE Returned(Undefined,
                  [k \in DOMAIN store |-> SweepKey(store, mode, k, t)[k]])

\* CacheManager.clearOld: the storage it leaves behind.
ClearOld(store, mode, t) == SweepOutcome(store, mode, t).store


(***************************************************************************)
(* Utils.formatNumber and Utils.formatNumberFull, on non-negative          *)
(* integers.                                                               *)
(***************************************************************************)
\* (num / unit).toFixed(1): num / unit rounded to one decimal.
ToFixed1(num, unit) ==
    LET tenths == (num * 10 + unit \div 2) \div unit
    IN  ToString(tenths \div 10) \o "." \o ToString(tenths % 10)

\* str.replace(/\.0$/, '')
StripDotZero(str) ==
    IF Len(str) >= 2 /\ SubSeq(str, Len(str) - 1, Len(str)) = ".0"
    THEN SubSeq(str, 1, Len(str) - 2)
    ELSE str

FormatNumber(num) ==
    IF num >= 1000000 THEN StripDotZero(ToFixed1(num, 1000000)) \o "M"
    ELSE IF num >= 1000 THEN StripDotZero(ToFixed1(num, 1000)) \o "k"
    ELSE ToString(num)

Pad3(n) ==
    IF n < 10 THEN "00" \o ToString(n)
    ELSE IF n < 100 THEN "0" \o ToString(n)
    ELSE ToString(n)

\* num.toLocaleString('en-US'): groups of three digits separated by commas.
RECURSIVE FormatNumberFull(_)
FormatNumberFull(num) ==
    IF num < 1000 THEN ToString(num)
    ELSE FormatNumberFull(num \div 1000) \o "," \o Pad3(num % 1000)

(***************************************************************************)
(* The page.  A display state is a record                                  *)
(*   text    textContent of each numeric target                            *)
(*   style   "shown" or "faded" (opacity 0, scale 0.85) per target         *)
(*   timers  the pending 150 ms swaps, oldest first: timers of equal delay *)
(*           run in the order they were set                                *)
(*   html    innerHTML of the list, bar and badge containers               *)
(***************************************************************************)
StatIds ==
    <<"hero-stars", "hero-forks", "detailed-stars", "detailed-forks",
      "detailed-watchers", "detailed-issues">>

DownloadIds == <<"hero-downloads", "detailed-downloads">>

NumIds == {StatIds[i] : i \in 1..Len(StatIds)} \cup
          {DownloadIds[i] : i \in 1..Len(DownloadIds)}

ContainerIds ==
    {"commits-list", "contributors-list", "languages-bar", "languages-legend",
     "latest-release-badge"}

\* GitHubAPI.updateEl(id, value); here is the set of ids the page has.
UpdateEl(d, here, id, value) ==
    IF id \notin here THEN d
    ELSE IF d.text[id] = value THEN d
    ELSE [d EXCEPT !.style[id] = "faded",
                   !.timers = Append(@, [id |-> id, value |-> value])]

\* The callback of updateEl's setTimeout.
SwapText(d, tm) ==
    [d EXCEPT !.text[tm.id] = tm.value, !.style[tm.id] = "shown"]

(***************************************************************************)
(* GitHubAPI.  The operators below are the synchronous stretches of the    *)
(* async load methods, as functions of an API state                        *)
(*   store    localStorage                                                 *)
(*   pc       per category: "idle", "fetch" (awaiting fetch), "json"       *)
(*            (awaiting resp.json()), and the ways a load ends: "hit"      *)
(*            (served from cache), "ok" (try block completed), "failed"    *)
(*            (catch block ran), "rejected" (an exception left the method) *)
(*   mem      this.repoStats, this.totalDownloads, ... (null at start)     *)
(*   fetches  network requests issued per category                         *)
(*   renders  calls of the category's render method                        *)
(*   dom      the display state                                            *)
(*   dl       total, page, hasMore of loadTotalDownloads, and whether the  *)
(*            response in hand carries rel="next" in its Link header       *)
(*   asked    the page numbers loadTotalDownloads has requested            *)
(* mode is the storage mode, here the ids the page has, t is Date.now().   *)
(***************************************************************************)
Cats == CacheKeys

FallbackStats ==
    Obj([stars |-> Num(10200), forks |-> Num(879), watchers |-> Num(168),
         openIssues |-> Num(0)])

StatFields == <<"stars", "forks", "stars", "forks", "watchers", "openIssues">>

\* The value renderRepoStats hands to its i-th updateEl call.
StatText(s, i) ==
    LET n == Get(s, StatFields[i]).n IN
    CASE i \in {1, 2} -> FormatNumber(n) \o "+"
      [] i \in {3, 4, 5} -> FormatNumberFull(n)
      [] OTHER -> ToString(n)

\* renderRepoStats from its i-th updateEl call on: formatting a value that is
\* no number throws a TypeError, and the calls before it have taken effect.
RECURSIVE RenderStatsFrom(_, _, _, _)
RenderStatsFrom(d, here, s, i) ==
    IF i > Len(StatIds) THEN [dom |-> d, threw |-> FALSE]
    ELSE IF ~IsNum(Get(s, StatFields[i])) THEN [dom |-> d, threw |-> TRUE]
    ELSE RenderStatsFrom(UpdateEl(d, here, StatIds[i], StatText(s, i)), here, s, i + 1)

\* GitHubAPI.renderRepoStats
RenderRepoStats(a, here) ==
    LET s == a.mem["repo_stats"]
        r == IF ~Truthy(s) THEN [dom |-> a.dom, threw |-> FALSE]
             ELSE RenderStatsFrom(a.dom, here, s, 1)
    IN  [a |-> [a EXCEPT !.dom = r.dom, !.renders["repo_stats"] = @ + 1],
         threw |-> r.threw]

\* GitHubAPI.renderDownloads
RenderDownloads(a, here) ==
    LET v == a.mem["total_downloads"]
        a1 == [a EXCEPT !.renders["total_downloads"] = @ + 1]
    IN  IF ~IsNum(v) THEN [a |-> a1, threw |-> TRUE]
        ELSE LET d1 == UpdateEl(a.dom, here, DownloadIds[1], FormatNumber(v.n) \o "+")
                 d2 == UpdateEl(d1, here, DownloadIds[2], FormatNumberFull(v.n))
             IN  [a |-> [a1 EXCEPT !.dom = d2], threw |-> FALSE]

\* loadRepoStats up to its first await (script.js 163-170).
BeginRepoStats(a, mode, here, t) ==
    LET r == CacheGet(a.store, mode, "repo_stats", t)
        a1 == [a EXCEPT !.store = r.store]
    IN  IF Truthy(r.value)
        THEN LET rr == RenderRepoStats([a1 EXCEPT !.mem["repo_stats"] = r.value], here)
             IN  [rr.a EXCEPT !.pc["repo_stats"] = IF rr.threw THEN "rejected" ELSE "hit"]
        ELSE [a1 EXCEPT !.pc["repo_stats"] = "fetch", !.fetches["repo_stats"] = @ + 1]

\* Mutant of the catch block: the error is logged and nothing else happens.
CatchRepoStats_LogsOnly(a, here) == [a EXCEPT !.pc["repo_stats"] = "failed"]

\* Mutant of the catch block: the fallback is written to the cache as well.
CatchRepoStats_CachesFallback(a, here) ==
    LET a1 == [a EXCEPT !.mem["repo_stats"] = FallbackStats,
                        !.store = CacheSet(a.store, "ok", "repo_stats", FallbackStats, 0)]
        rr == RenderRepoStats(a1, here)
    IN  [rr.a EXCEPT !.pc["repo_stats"] = IF rr.threw THEN "rejected" ELSE "failed"]

\* The catch block of loadRepoStats (script.js 181-185).
CatchRepoStats(a, here) ==
    LET rr == RenderRepoStats([a EXCEPT !.mem["repo_stats"] = FallbackStats], here)
    IN  [rr.a EXCEPT !.pc["repo_stats"] = IF rr.threw THEN "rejected" ELSE "failed"]

\* loadRepoStats once fetch has settled (script.js 170-172): outcome is
\* "neterr" (fetch rejected), "notok" (resp.ok false) or "ok".
FetchedRepoStats(a, here, outcome) ==
    IF outcome = "ok" THEN [a EXCEPT !.pc["repo_stats"] = "json"]
    ELSE CatchRepoStats(a, here)

\* loadRepoStats once resp.json() has settled (script.js 172-185): body.kind is
\* "syntax" (json() rejected) or "json" with the parsed value in body.data.
ParsedRepoStats(a, mode, here, body, t) ==
    IF body.kind = "syntax" \/ IsNullish(body.data) THEN CatchRepoStats(a, here)
    ELSE LET stats == Obj([stars |-> Get(body.data, "stargazers_count"),
                           forks |-> Get(body.data, "forks_count"),
                           watchers |-> Get(body.data, "subscribers_count"),
                           openIssues |-> Get(body.data, "open_issues_count")])
             a1 == [a EXCEPT !.mem["repo_stats"] = stats,
                             !.store = CacheSet(a.store, mode, "repo_stats", stats, t)]
             rr == RenderRepoStats(a1, here)
         IN  IF rr.threw THEN CatchRepoStats(rr.a, here)
             ELSE [rr.a EXCEPT !.pc["repo_stats"] = "ok"]

(***************************************************************************)
(* loadTotalDownloads: the pagination aggregator.                          *)
(***************************************************************************)
\* The inner loop over release.assets || []: asset.download_count || 0 summed.
\* A null asset, or assets that are no array, throw a TypeError.
RECURSIVE AssetsSum(_, _)
AssetsSum(assets, i) ==
    IF i > Len(assets) THEN [threw |-> FALSE, sum |-> 0]
    ELSE IF IsNullish(assets[i]) THEN [threw |-> TRUE, sum |-> 0]
    ELSE LET c == Get(assets[i], "download_count")
             rest == AssetsSum(assets, i + 1)
         IN  [threw |-> rest.threw,
              sum |-> (IF IsNum(c) THEN c.n ELSE 0) + rest.sum]

\* Mutant of the inner loop: only the first asset of a release is counted.
ReleaseSum_FirstAssetOnly(release) ==
    IF IsNullish(release) THEN [threw |-> TRUE, sum |-> 0]
    ELSE LET assets == Get(release, "assets") IN
         IF ~Truthy(assets) THEN [threw |-> FALSE, sum |-> 0]
         ELSE IF ~IsArr(assets) THEN [threw |-> TRUE, sum |-> 0]
         ELSE AssetsSum(SubSeq(assets.a, 1, IF Len(assets.a) > 0 THEN 1 ELSE 0), 1)

ReleaseSum(release) ==
    IF IsNullish(release) THEN [threw |-> TRUE, sum |-> 0]
    ELSE LET assets == Get(release, "assets") IN
         IF ~Truthy(assets) THEN [threw |-> FALSE, sum |-> 0]
         ELSE IF ~IsArr(assets) THEN [threw |-> TRUE, sum |-> 0]
         ELSE AssetsSum(assets.a, 1)

\* The outer loop over the releases of one page.
RECURSIVE PageSum(_, _)
PageSum(releases, i) ==
    IF i > Len(releases) THEN [threw |-> FALSE, sum |-> 0]
    ELSE LET one == ReleaseSum(releases[i])
             rest == PageSum(releases, i + 1)
         IN  [threw |-> one.threw \/ rest.threw, sum |-> one.sum + rest.sum]

\* Mutant of loadTotalDownloads: the cached total is tested with `if (cached)`.
BeginDownloads_TruthyCheck(a, mode, here, t) ==
    LET r == CacheGet(a.store, mode, "total_downloads", t)
        a1 == [a EXCEPT !.store = r.store]
    IN  IF Truthy(r.value)
        THEN LET rr == RenderDownloads([a1 EXCEPT !.mem["total_downloads"] = r.value], here)
             IN  [rr.a EXCEPT !.pc["total_downloads"] =
                                  IF rr.threw THEN "rejected" ELSE "hit"]
        ELSE [a1 EXCEPT !.pc["total_downloads"] = "fetch",
                        !.fetches["total_downloads"] = @ + 1,
                        !.dl = [total |-> 0, page |-> 1, hasMore |-> TRUE, link |-> FALSE],
                        !.asked = <<1>>]

\* loadTotalDownloads up to its first await (script.js 201-214).
BeginDownloads(a, mode, here, t) ==
    LET r == CacheGet(a.store, mode, "total_downloads", t)
        a1 == [a EXCEPT !.store = r.store]
    IN  IF r.value # Null
        THEN LET rr == RenderDownloads([a1 EXCEPT !.mem["total_downloads"] = r.value], here)
             IN  [rr.a EXCEPT !.pc["total_downloads"] =
                                  IF rr.threw THEN "rejected" ELSE "hit"]
        ELSE [a1 EXCEPT !.pc["total_downloads"] = "fetch",
                        !.fetches["total_downloads"] = @ + 1,
                        !.dl = [total |-> 0, page |-> 1, hasMore |-> TRUE, link |-> FALSE],
                        !.asked = <<1>>]

\* Mutant of the catch block: the sum reached so far is kept and rendered.
CatchDownloads_KeepsPartial(a, here) ==
    LET rr == RenderDownloads([a EXCEPT !.mem["total_downloads"] = Num(a.dl.total)], here)
    IN  [rr.a EXCEPT !.pc["total_downloads"] = IF rr.threw THEN "rejected" ELSE "failed"]

\* The catch block of loadTotalDownloads (script.js 234-238).
CatchDownloads(a, here) ==
    LET rr == RenderDownloads(
                  [a EXCEPT !.mem["total_downloads"] = Num(DOWNLOADS_PLACEHOLDER)], here)
    IN  [rr.a EXCEPT !.pc["total_downloads"] = IF rr.threw THEN "rejected" ELSE "failed"]

\* After the loop (script.js 231-233).
FinishDownloads(a, mode, here, total, t) ==
    LET a1 == [a EXCEPT !.mem["total_downloads"] = Num(total),
                        !.store = CacheSet(a.store, mode, "total_downloads", Num(total), t)]
        rr == RenderDownloads(a1, here)
    IN  IF rr.threw THEN CatchDownloads(rr.a, here)
        ELSE [rr.a EXCEPT !.pc["total_downloads"] = "ok"]

\* The loop once fetch has settled (script.js 212-216); link tells whether the
\* response's Link header holds rel="next".
FetchedDownloads(a, here, outcome, link) ==
    IF outcome = "ok"
    THEN [a EXCEPT !.pc["total_downloads"] = "json", !.dl.link = link]
    ELSE CatchDownloads(a, here)

\* Mutant of the loop: the safety limit on the page number is missing.
ParsedDownloads_NoLimit(a, mode, here, body, t) ==
    IF body.kind = "syntax" \/ IsNullish(body.data) THEN CatchDownloads(a, here)
    ELSE IF IsArr(body.data) /\ Len(body.data.a) = 0
         THEN FinishDownloads([a EXCEPT !.dl.hasMore = FALSE], mode, here, a.dl.total, t)
    ELSE IF ~IsArr(body.data) THEN CatchDownloads(a, here)
    ELSE LET ps == PageSum(body.data.a, 1)
             total == a.dl.total + ps.sum
             page == a.dl.page + 1
             a1 == [a EXCEPT !.dl.total = total, !.dl.page = page,
                             !.dl.hasMore = a.dl.link]
         IN  IF ps.threw THEN CatchDownloads(a, here)
             ELSE IF a.dl.link
                  THEN [a1 EXCEPT !.pc["total_downloads"] = "fetch",
                                  !.fetches["total_downloads"] = @ + 1,
                                  !.asked = Append(@, page)]
             ELSE FinishDownloads(a1, mode, here, total, t)

\* The loop once resp.json() has settled (script.js 216-233), up to the next
\* fetch or the end of the method.
ParsedDownloads(a, mode, here, body, t) ==
    IF body.kind = "syntax" \/ IsNullish(body.data) THEN CatchDownloads(a, here)
    ELSE IF IsArr(body.data) /\ Len(body.data.a) = 0
         THEN FinishDownloads([a EXCEPT !.dl.hasMore = FALSE], mode, here, a.dl.total, t)
    ELSE IF ~IsArr(body.data) THEN CatchDownloads(a, here)
    ELSE LET ps == PageSum(body.data.a, 1)
             total == a.dl.total + ps.sum
             page == a.dl.page + 1
             a1 == [a EXCEPT !.dl.total = total, !.dl.page = page,
                             !.dl.hasMore = a.dl.link]
         IN  IF ps.threw THEN CatchDownloads(a, here)
             ELSE IF page > PAGE_LIMIT THEN FinishDownloads(a1, mode, here, total, t)
             ELSE IF a.dl.link
                  THEN [a1 EXCEPT !.pc["total_downloads"] = "fetch",
                                  !.fetches["total_downloads"] = @ + 1,
                                  !.asked = Append(@, page)]
             ELSE FinishDownloads(a1, mode, here, total, t)

(***************************************************************************)
(* The release listing the remote endpoint serves: npages non-empty pages  *)
(* followed by empty ones; the Link header is "honest" (rel="next" on      *)
(* every page but the last non-empty one), "always" or "never" there.      *)
(***************************************************************************)
Asset(n) == Obj([download_count |-> Num(n)])
Release(assets) == Obj([assets |-> Arr(assets)])

\* Page contents: two assets; a release without assets and an asset without
\* counter; a release whose assets are empty.
PagePatterns ==
    << Arr(<<Release(<<Asset(5), Asset(3)>>)>>),
       Arr(<<Obj([tag_name |-> Str("v1")]),
             Release(<<Obj([name |-> Str("die.zip")]), Asset(2)>>)>>),
       Arr(<<Release(<<>>)>>) >>

ServedPage(sv, p) ==
    IF p > sv.npages THEN Arr(<<>>)
    ELSE PagePatterns[((p + sv.offset) % Len(PagePatterns)) + 1]

ServedNext(sv, p) ==
    CASE sv.link = "always" -> TRUE
      [] sv.link = "never" -> FALSE
      [] OTHER -> p < sv.npages

(***************************************************************************)
(* loadCommits, loadContributors, loadLanguages, loadLatestRelease.        *)
(* A normaliser yields [threw, value]: threw when the code raises a        *)
(* TypeError on the payload.                                               *)
(***************************************************************************)
Threw == [threw |-> TRUE, value |-> Null]
Value(v) == [threw |-> FALSE, value |-> v]

\* str.split('\n')[0]
FirstLineFrom(str, i) ==
    LET breaks == {j \in i..Len(str) : SubSeq(str, j, j) = "\n"}
    IN  IF breaks = {} THEN str
        ELSE SubSeq(str, 1, (CHOOSE j \in breaks : \A k \in breaks : j <= k) - 1)

\* str.substring(0, n)
Substring0(str, n) == IF Len(str) <= n THEN str ELSE SubSeq(str, 1, n)

\* Mutant of the arrow function: the first line is stored whole.
NormalizeCommit_NoCut(c) ==
    IF IsNullish(c) THEN Threw
    ELSE LET sha == Get(c, "sha")
             commit == Get(c, "commit")
             message == Get(commit, "message")
             cauthor == Get(commit, "author")
             author == Get(c, "author")
         IN  IF sha.t # "str" \/ IsNullish(commit) THEN Threw
             ELSE IF Truthy(message) /\ message.t # "str" THEN Threw
             ELSE IF IsNullish(cauthor) THEN Threw
             ELSE Value(Obj([
                 sha |-> Str(Substring0(sha.s, 7)),
                 message |-> Str(FirstLineFrom(IF Truthy(message) THEN message.s ELSE "", 1)),
                 date |-> Get(cauthor, "date"),
                 author |-> IF Truthy(author) THEN Get(author, "login")
                            ELSE Get(cauthor, "name"),
                 avatar |-> IF Truthy(author) THEN Get(author, "avatar_url")
                            ELSE Null]))

\* The arrow function of data.map in loadCommits (script.js 260-266).
NormalizeCommit(c) ==
    IF IsNullish(c) THEN Threw
    ELSE LET sha == Get(c, "sha")
             commit == Get(c, "commit")
             message == Get(commit, "message")
             cauthor == Get(commit, "author")
             author == Get(c, "author")
         IN  IF sha.t # "str" \/ IsNullish(commit) THEN Threw
             ELSE IF Truthy(message) /\ message.t # "str" THEN Threw
             ELSE IF IsNullish(cauthor) THEN Threw
             ELSE Value(Obj([
                 sha |-> Str(Substring0(sha.s, 7)),
                 message |-> Str(Substring0(
                     FirstLineFrom(IF Truthy(message) THEN message.s ELSE "", 1), 80)),
                 date |-> Get(cauthor, "date"),
                 author |-> IF Truthy(author) THEN Get(author, "login")
                            ELSE Get(cauthor, "name"),
                 avatar |-> IF Truthy(author) THEN Get(author, "avatar_url")
                            ELSE Null]))

\* The arrow function of data.map in loadContributors (script.js 308-313).
NormalizeContributor(c) ==
    IF IsNullish(c) THEN Threw
    ELSE Value(Obj([login |-> Get(c, "login"), avatar |-> Get(c, "avatar_url"),
                    contributions |-> Get(c, "contributions"),
                    url |-> Get(c, "html_url")]))

NormalizeItem(cat, c) ==
    IF cat = "commits" THEN NormalizeCommit(c) ELSE NormalizeContributor(c)

\* data.map(...): every entry of the response is mapped, in order.
RECURSIVE MapItems(_, _, _)
MapItems(cat, items, i) ==
    IF i > Len(items) THEN [threw |-> FALSE, out |-> <<>>]
    ELSE LET one == NormalizeItem(cat, items[i])
             rest == MapItems(cat, items, i + 1)
         IN  [threw |-> one.threw \/ rest.threw, out |-> <<one.value>> \o rest.out]

NormalizeList(cat, data) ==
    IF ~IsArr(data) THEN Threw
    ELSE LET m == MapItems(cat, data.a, 1)
         IN  IF m.threw THEN Threw ELSE Value(Arr(m.out))

\* A language map is an object whose keys keep their order: ord lists them.
LangMap(names, bytes) ==
    [t |-> "obj", f |-> [i \in {names[j] : j \in 1..Len(names)} |->
                           Num(bytes[CHOOSE j \in 1..Len(names) : names[j] = i])],
     ord |-> names]

RECURSIVE SumBytes(_, _)
SumBytes(data, i) ==
    IF i > Len(data.ord) THEN 0 ELSE data.f[data.ord[i]].n + SumBytes(data, i + 1)

\* ((bytes / total) * 100) in tenths, rounded as toFixed(1) rounds.
PercentTenths(bytes, total) == (bytes * 1000 + total \div 2) \div total

\* Array.prototype.sort((a, b) => b.percent - a.percent): stable, descending;
\* entry e of items goes in front of the first sorted entry it exceeds.
RECURSIVE InsertDesc(_, _)
InsertDesc(sorted, e) ==
    IF sorted = <<>> THEN <<e>>
    ELSE IF e.tenths > Head(sorted).tenths THEN <<e>> \o sorted
    ELSE <<Head(sorted)>> \o InsertDesc(Tail(sorted), e)

RECURSIVE SortDesc(_, _)
SortDesc(items, i) ==
    IF i = 0 THEN <<>> ELSE InsertDesc(SortDesc(items, i - 1), items[i])

\* script.js 346-350.
NormalizeLanguages(data) ==
    IF IsNullish(data) THEN Threw
    ELSE IF ~IsObj(data) THEN Value(Arr(<<>>))
    ELSE LET total == SumBytes(data, 1)
             items == [i \in 1..Len(data.ord) |->
                         [name |-> data.ord[i],
                          tenths |-> IF total = 0 THEN 0
                                     ELSE PercentTenths(data.f[data.ord[i]].n, total),
                          percent |-> IF total = 0 THEN "NaN"
                                      ELSE ToFixed1(data.f[data.ord[i]].n * 100, total)]]
             sorted == SortDesc(items, Len(items))
         IN  Value(Arr([i \in 1..Len(sorted) |->
                          Obj([name |-> Str(sorted[i].name),
                               percent |-> Str(sorted[i].percent)])]))

\* script.js 399-404.
NormalizeRelease(data) ==
    IF IsNullish(data) THEN Threw
    ELSE Value(Obj([tag |-> Get(data, "tag_name"), name |-> Get(data, "name"),
                    date |-> Get(data, "published_at"), url |-> Get(data, "html_url")]))

Normalize(cat, data) ==
    CASE cat \in {"commits", "contributors"} -> NormalizeList(cat, data)
      [] cat = "languages" -> NormalizeLanguages(data)
      [] OTHER -> NormalizeRelease(data)

\* innerHTML built from a value; the static markup of the page before it.
Static == [t |-> "static"]
Html(v) == [t |-> "html", of |-> v]

HasNullish(items) == \E i \in 1..Len(items) : IsNullish(items[i])

\* renderCommits, renderContributors, renderLanguages, renderLatestRelease
\* (script.js 274-292, 321-330, 358-383, 412-422).
Render(cat, a, here) ==
    LET v == a.mem[cat]
        el == CASE cat = "commits" -> "commits-list"
                [] cat = "contributors" -> "contributors-list"
                [] cat = "languages" -> "languages-bar"
                [] OTHER -> "latest-release-badge"
        a1 == [a EXCEPT !.renders[cat] = @ + 1]
    IN  IF el \notin here \/ ~Truthy(v) THEN [a |-> a1, threw |-> FALSE]
        ELSE IF cat = "latest_release"
             THEN [a |-> [a1 EXCEPT !.dom.html[el] = Html(v)], threw |-> FALSE]
        ELSE IF ~IsArr(v) \/ HasNullish(v.a) THEN [a |-> a1, threw |-> TRUE]
        ELSE IF cat = "languages"
             THEN [a |-> [a1 EXCEPT
                       !.dom.html[el] = Html(v),
                       !.dom.html["languages-legend"] =
                           IF "languages-legend" \in here
                           THEN Html(Arr(SubSeq(v.a, 1, IF Len(v.a) < 6 THEN Len(v.a) ELSE 6)))
                           ELSE @],
                   threw |-> FALSE]
        ELSE [a |-> [a1 EXCEPT !.dom.html[el] = Html(v)], threw |-> FALSE]

\* The load up to its first await (script.js 248-257, 296-305, 334-343, 387-396).
BeginLoad(cat, a, mode, here, t) ==
    LET r == CacheGet(a.store, mode, cat, t)
        a1 == [a EXCEPT !.store = r.store]
    IN  IF Truthy(r.value)
        THEN LET rr == Render(cat, [a1 EXCEPT !.mem[cat] = r.value], here)
             IN  [rr.a EXCEPT !.pc[cat] = IF rr.threw THEN "rejected" ELSE "hit"]
        ELSE [a1 EXCEPT !.pc[cat] = "fetch", !.fetches[cat] = @ + 1]

\* Mutant of the catch block: an empty list is put in place of the data.
CatchLoad_RendersEmpty(cat, a) ==
    [a EXCEPT !.pc[cat] = "failed", !.mem[cat] = Arr(<<>>)]

\* The catch block: Utils.log only.
CatchLoad(cat, a) == [a EXCEPT !.pc[cat] = "failed"]

\* The load once fetch has settled.
FetchedLoad(cat, a, outcome) ==
    IF outcome = "ok" THEN [a EXCEPT !.pc[cat] = "json"] ELSE CatchLoad(cat, a)

\* The load once resp.json() has settled.
ParsedLoad(cat, a, mode, here, body, t) ==
    IF body.kind = "syntax" THEN CatchLoad(cat, a)
    ELSE LET n == Normalize(cat, body.data) IN
         IF n.threw THEN CatchLoad(cat, a)
         ELSE LET a1 == [a EXCEPT !.mem[cat] = n.value,
                                  !.store = CacheSet(a.store, mode, cat, n.value, t)]
                  rr == Render(cat, a1, here)
              IN  IF rr.threw THEN CatchLoad(cat, rr.a)
                  ELSE [rr.a EXCEPT !.pc[cat] = "ok"]

(***************************************************************************)
(* The preloader.  The file holds it twice: the class Preloader, built by  *)
(* the DOMContentLoaded handler, and the function initPreloader of the     *)
(* second script, called once when the script is evaluated and once more   *)
(* by that script's init().  Both act on the element .preloader.  A        *)
(* preloader state p has                                                   *)
(*   markup     "none": the page has no .preloader; "before": the element  *)
(*              is parsed before the script runs; "after": after it        *)
(*   phase      "parsing", "evaluated" (the script has run), "interactive" *)
(*              (DOMContentLoaded has run), "complete" (load has fired)    *)
(*   attached   the element is in the document                             *)
(*   hidden     its classList holds 'hidden'                               *)
(*   loading    body's classList holds 'loading'                           *)
(*   el         Preloader's this.el is not null                            *)
(*   startTime  Preloader's this.startTime, -1 before it is set            *)
(*   listeners  the 'load' listeners, in the order they were added         *)
(*   timers     the pending setTimeout calls, in the order they were made  *)
(*   errors     uncaught TypeErrors raised by timer callbacks              *)
(*   hides, hiddenAt, loadAt   history: the runs of the hide side effects, *)
(*              the time of the first, the time of the load event          *)
(***************************************************************************)
PRELOADER_MIN_TIME == 1500
PRELOADER_MAX_TIME == 5000
PRELOADER_FADE == 600

\* The document before the script runs.
FreshPre(markup) ==
    [markup |-> markup, phase |-> "parsing", attached |-> markup = "before",
     hidden |-> FALSE, loading |-> TRUE, el |-> FALSE, startTime |-> -1,
     listeners |-> <<>>, timers |-> <<>>, errors |-> 0, hides |-> 0,
     hiddenAt |-> -1, loadAt |-> -1]

\* classList.add('hidden'); body.classList.remove('loading');
\* setTimeout(<remove>, 600), remove being the callback of the caller.
HideEffects(p, remove, t) ==
    [p EXCEPT !.hidden = TRUE, !.loading = FALSE,
              !.timers = Append(@, [at |-> t + PRELOADER_FADE, fn |-> remove]),
              !.hides = @ + 1,
              !.hiddenAt = IF @ = -1 THEN t ELSE @]

\* Preloader.hide (script.js 463-469).
PreloaderHide(p, t) ==
    IF ~p.el THEN p
    ELSE [HideEffects(p, "this.el.remove", t) EXCEPT !.el = FALSE]

\* hidePreloader of initPreloader (script.js 700-708).
HidePreloader(p, t) == HideEffects(p, "preloader.remove", t)

\* Math.max(0, PRELOADER_MIN_TIME - elapsed)
Remaining(elapsed) ==
    IF PRELOADER_MIN_TIME - elapsed > 0 THEN PRELOADER_MIN_TIME - elapsed ELSE 0

\* A 'load' listener runs: script.js 449-453 and 713-718.
OnLoad(p, l, t) ==
    [p EXCEPT !.timers = Append(@, [at |-> t + Remaining(t - l.startTime),
                                    fn |-> l.fn])]

\* document.querySelector('.preloader') finds the element.
Found(p) == p.markup # "none" /\ p.attached

\* new Preloader() (script.js 441-461).
NewPreloader(p, t) ==
    IF ~Found(p) THEN [p EXCEPT !.el = FALSE]
    ELSE LET p1 == [p EXCEPT !.el = TRUE, !.startTime = t]
             l == [fn |-> "Preloader.hide", startTime |-> t]
             p2 == IF p1.phase = "complete" THEN OnLoad(p1, l, t)
                   ELSE [p1 EXCEPT !.listeners = Append(@, l)]
         IN  [p2 EXCEPT !.timers =
                 Append(@, [at |-> t + PRELOADER_MAX_TIME, fn |-> "Preloader.hide"])]

\* initPreloader() (script.js 693-721).
InitPreloader(p, t) ==
    IF ~Found(p) THEN p
    ELSE [p EXCEPT
            !.listeners = Append(@, [fn |-> "hidePreloader", startTime |-> t]),
            !.timers = Append(@, [at |-> t + PRELOADER_MAX_TIME,
                                  fn |-> "hidePreloader"])]

\* The callback of a timer runs.  this.el.remove() is evaluated when the
\* timer fires, after Preloader.hide has set this.el to null.
RunTimer(p, tm, t) ==
    CASE tm.fn = "Preloader.hide" -> PreloaderHide(p, t)
      [] tm.fn = "hidePreloader" -> HidePreloader(p, t)
      [] tm.fn = "this.el.remove" ->
           IF p.el THEN [p EXCEPT !.attached = FALSE]
           ELSE [p EXCEPT !.errors = @ + 1]
      [] OTHER -> [p EXCEPT !.attached = FALSE]

\* The listeners of the 'load' event run in the order they were added.
RECURSIVE RunListeners(_, _, _)
RunListeners(p, i, t) ==
    IF i > Len(p.listeners) THEN p
    ELSE RunListeners(OnLoad(p, p.listeners[i], t), i + 1, t)

\* The script is evaluated: the second script calls initPreloader() at once
\* (script.js 996) and both scripts register their DOMContentLoaded handlers.
Evaluate(p, t) == InitPreloader([p EXCEPT !.phase = "evaluated"], t)

\* The preloader's share of the two DOMContentLoaded handlers, which run in
\* the order they were registered: new Preloader() (script.js 641), then
\* init() with its initPreloader() (script.js 975).  The document is parsed.
ReadyPreloader(p, t) ==
    LET p0 == [p EXCEPT !.phase = "interactive",
                        !.attached = IF p.markup = "after" THEN TRUE ELSE @]
    IN  InitPreloader(NewPreloader(p0, t), t)

\* A page without .preloader, once the script has been evaluated.
PreIdle == Evaluate(FreshPre("none"), 0)

(***************************************************************************)
(* The second script's fetchGitHubStats (script.js 724-756), started by    *)
(* its init() on DOMContentLoaded.  It writes the element ids that         *)
(* renderRepoStats writes, through animateStat and its own formatNumber.   *)
(***************************************************************************)
\* The second script's stats request is not under way.
AltIdle == [pc |-> "idle"]

\* formatNumber of the second script (script.js 685-690).
FormatNumberK(num) ==
    IF num >= 1000 THEN StripDotZero(ToFixed1(num, 1000)) \o "k"
    ELSE ToString(num)

\* animateStat(id, value): no comparison with the text shown.
AnimateStat(d, here, id, value) ==
    IF id \notin here THEN d
    ELSE [d EXCEPT !.style[id] = "faded",
                   !.timers = Append(@, [id |-> id, value |-> value])]

AltIds ==
    <<"hero-stars", "detailed-stars", "detailed-forks", "detailed-watchers",
      "detailed-issues">>

AltFields ==
    <<"stargazers_count", "stargazers_count", "forks_count", "subscribers_count",
      "open_issues_count">>

\* The value fetchGitHubStats hands to its i-th animateStat call.
AltText(data, i) ==
    LET n == Get(data, AltFields[i]).n
    IN  CASE i = 1 -> FormatNumberK(n) \o "+"
          [] i = 5 -> ToString(n)
          [] OTHER -> FormatNumberK(n)

\* The animateStat calls from the i-th on; a count that is no number makes
\* toString throw, and the calls made before it stand.
RECURSIVE AnimateStatsFrom(_, _, _, _)
AnimateStatsFrom(d, here, data, i) ==
    IF i > Len(AltIds) THEN [dom |-> d, threw |-> FALSE]
    ELSE IF ~IsNum(Get(data, AltFields[i])) THEN [dom |-> d, threw |-> TRUE]
    ELSE AnimateStatsFrom(AnimateStat(d, here, AltIds[i], AltText(data, i)),
                          here, data, i + 1)

\* fetchGitHubStats once response.json() has settled; the catch only warns.
AltParsed(d, here, body) ==
    IF body.kind = "syntax" \/ IsNullish(body.data) THEN [dom |-> d, threw |-> TRUE]
    ELSE AnimateStatsFrom(d, here, body.data, 1)

\* CacheManager.clearOld has not run in this page load.
NoSweep == [n |-> 0, removed |-> {}]

\* The keys whose item a run of clearOld removes.
RemovedBy(before, after) ==
    {k \in DOMAIN before : before[k] # NoItem /\ after[k] = NoItem}

(***************************************************************************)
(* State.                                                                  *)
(*   now, ticks    Date.now() and the number of clock steps taken          *)
(*   store         localStorage, by cache key                              *)
(*   storageMode   "ok", "denied" (every access throws) or "quota"         *)
(*                 (setItem throws)                                        *)
(*   written       per key, the last CacheManager.set call: value and time *)
(*   lastOp        the last direct CacheManager call and what it returned  *)
(*   nsets         number of direct CacheManager.set calls made            *)
(*   pc .. asked   the fields of the API state                             *)
(*   page          the document: the ids it has (here) and the text its    *)
(*                 markup gives the numeric targets (text)                 *)
(*   srv           the release listing the remote endpoint serves          *)
(*   started       DOMContentLoaded has run in this page load              *)
(*   loads         page loads so far                                       *)
(*   swept         the runs of CacheManager.clearOld in this page load (n) *)
(*                 and the keys the last run removed (removed)             *)
(*   pre           the preloader                                           *)
(*   alt           the second script's stats request                       *)
(*   calls         the direct calls of updateEl made so far: id and value  *)
(***************************************************************************)
VARIABLES now, ticks, store, storageMode, written, lastOp, nsets,
          pc, mem, fetches, renders, dom, dl, asked, page, srv, started, loads,
          swept, pre, alt, calls

cacheVars == <<store, storageMode, written, lastOp, nsets>>
clockVars == <<now, ticks>>
apiVars == <<pc, mem, fetches, renders, dom, dl, asked>>
pageVars == <<page, srv, started, loads>>
sideVars == <<swept, pre, alt, calls>>

NoWrite == [t |-> "nowrite"]
NoOp == [op |-> "none", key |-> "", value |-> Null, stale |-> FALSE, threw |-> FALSE]

EmptyStore == [k \in CacheKeys |-> NoItem]

\* The clock steps: one millisecond, the TTL, the retention window.
ClockSteps == {1, CACHE_DURATION, RETENTION}

Tick(d) ==
    /\ ticks < MaxTicks
    /\ now' = now + d
    /\ ticks' = ticks + 1

(***************************************************************************)
(* A page load.                                                            *)
(***************************************************************************)
AllIds == NumIds \cup ContainerIds

\* The markup shows a dash in every numeric target.
DashText == [id \in NumIds |-> "-"]

\* The markup shows the figures the code falls back to.
FallbackText ==
    [id \in NumIds |->
        CASE id = "hero-downloads" -> FormatNumber(DOWNLOADS_PLACEHOLDER) \o "+"
          [] id = "detailed-downloads" -> FormatNumberFull(DOWNLOADS_PLACEHOLDER)
          [] OTHER -> StatText(FallbackStats,
                               CHOOSE i \in 1..Len(StatIds) : StatIds[i] = id)]

FullPage == [here |-> AllIds, text |-> DashText]

NoServer == [npages |-> 0, link |-> "never", offset |-> 0]

FreshDom(pg) ==
    [text |-> pg.text,
     style |-> [id \in NumIds |-> "shown"],
     timers |-> <<>>,
     html |-> [id \in ContainerIds |-> Static]]

IdleDl == [total |-> 0, page |-> 0, hasMore |-> FALSE, link |-> FALSE]

\* The script has been evaluated and the document is not yet parsed.
PageInit ==
    /\ pc = [c \in Cats |-> "idle"]
    /\ mem = [c \in Cats |-> Null]
    /\ fetches = [c \in Cats |-> 0]
    /\ renders = [c \in Cats |-> 0]
    /\ dom = FreshDom(page)
    /\ dl = IdleDl
    /\ asked = <<>>
    /\ started = FALSE
    /\ loads = 1
    /\ swept = NoSweep
    /\ pre = PreIdle
    /\ alt = AltIdle
    /\ calls = <<>>

Api ==
    [store |-> store, pc |-> pc, mem |-> mem, fetches |-> fetches,
     renders |-> renders, dom |-> dom, dl |-> dl, asked |-> asked]

Install(a) ==
    /\ store' = a.store
    /\ pc' = a.pc
    /\ mem' = a.mem
    /\ fetches' = a.fetches
    /\ renders' = a.renders
    /\ dom' = a.dom
    /\ dl' = a.dl
    /\ asked' = a.asked

\* GitHubAPI.init, run by the DOMContentLoaded handler after clearOld
\* (script.js 638-644, 150-159): the loads of cats start in the order of
\* Promise.all's array, each running to its first await.
StartLoads(cats, a, mode, here, t) ==
    LET a0 == [a EXCEPT !.store = ClearOld(a.store, mode, t)]
        a1 == IF "repo_stats" \in cats THEN BeginRepoStats(a0, mode, here, t) ELSE a0
        a2 == IF "total_downloads" \in cats THEN BeginDownloads(a1, mode, here, t) ELSE a1
        a3 == IF "commits" \in cats THEN BeginLoad("commits", a2, mode, here, t) ELSE a2
        a4 == IF "contributors" \in cats
              THEN BeginLoad("contributors", a3, mode, here, t) ELSE a3
        a5 == IF "languages" \in cats THEN BeginLoad("languages", a4, mode, here, t) ELSE a4
    IN  IF "latest_release" \in cats
        THEN BeginLoad("latest_release", a5, mode, here, t) ELSE a5

PageStart(cats) ==
    /\ ~started
    /\ started' = TRUE
    /\ Install(StartLoads(cats, Api, storageMode, page.here, now))
    /\ swept' = [n |-> swept.n + 1,
                 removed |-> RemovedBy(store, ClearOld(store, storageMode, now))]
    /\ pre' = ReadyPreloader(pre, now)
    /\ alt' = [pc |-> "fetch"]
    /\ UNCHANGED <<clockVars, storageMode, written, lastOp, nsets, page, srv, loads,
                   calls>>

DOMContentLoaded == PageStart(Cats)

Outcomes == {"neterr", "notok", "ok"}

SyntaxError == [kind |-> "syntax", data |-> Null]
Json(v) == [kind |-> "json", data |-> v]

\* fetch settles for one category.
FetchSettles(cat) ==
    /\ pc[cat] = "fetch"
    /\ \E outcome \in Outcomes :
          Install(CASE cat = "repo_stats" -> FetchedRepoStats(Api, page.here, outcome)
                    [] cat = "total_downloads" ->
                         FetchedDownloads(Api, page.here, outcome, ServedNext(srv, dl.page))
                    [] OTHER -> FetchedLoad(cat, Api, outcome))
    /\ UNCHANGED <<clockVars, storageMode, written, lastOp, nsets, pageVars, sideVars>>

\* resp.json() settles for one category with one of bodies.
JsonSettles(cat, bodies) ==
    /\ pc[cat] = "json"
    /\ \E body \in bodies :
          Install(CASE cat = "repo_stats" ->
                         ParsedRepoStats(Api, storageMode, page.here, body, now)
                    [] cat = "total_downloads" ->
                         ParsedDownloads(Api, storageMode, page.here, body, now)
                    [] OTHER -> ParsedLoad(cat, Api, storageMode, page.here, body, now))
    /\ UNCHANGED <<clockVars, storageMode, written, lastOp, nsets, pageVars, sideVars>>

\* The oldest pending swap timer fires.
TimerFires ==
    /\ dom.timers # <<>>
    /\ dom' = [SwapText(dom, Head(dom.timers)) EXCEPT !.timers = Tail(dom.timers)]
    /\ UNCHANGED <<clockVars, cacheVars, pc, mem, fetches, renders, dl, asked, pageVars, sideVars>>

\* The user reloads the page: script state and document start over,
\* localStorage stays.
Reload ==
    /\ started
    /\ loads < MaxLoads
    /\ loads' = loads + 1
    /\ started' = FALSE
    /\ pc' = [c \in Cats |-> "idle"]
    /\ mem' = [c \in Cats |-> Null]
    /\ fetches' = [c \in Cats |-> 0]
    /\ renders' = [c \in Cats |-> 0]
    /\ dom' = FreshDom(page)
    /\ dl' = IdleDl
    /\ asked' = <<>>
    /\ swept' = NoSweep
    /\ pre' = Evaluate(FreshPre(pre.markup), now)
    /\ alt' = AltIdle
    /\ UNCHANGED <<clockVars, cacheVars, page, srv, calls>>

(***************************************************************************)
(* The cache on its own: direct calls of get, set and clearOld.            *)
(***************************************************************************)
OpKeys == {"repo_stats", "total_downloads"}

\* Values handed to set: a falsy number, a number, an empty array, an object
\* one of whose properties is undefined, an array of such.
OpValues ==
    {Num(0), Num(7), Arr(<<>>),
     Obj([k \in {"stars", "openIssues"} |-> IF k = "stars" THEN Num(7) ELSE Undefined]),
     Arr(<<Obj([k \in {"sha"} |-> Str("abc")])>>)}

OpSet(k, v) ==
    /\ nsets < MaxSets
    /\ nsets' = nsets + 1
    /\ store' = SetOutcome(store, storageMode, k, v, now).store
    /\ written' = [written EXCEPT ![k] = [value |-> v, at |-> now]]
    /\ lastOp' = [op |-> "set", key |-> k, value |-> v, stale |-> FALSE,
                  threw |-> SetOutcome(store, storageMode, k, v, now).threw]
    /\ UNCHANGED <<storageMode>>

OpGet(k) ==
    LET r == CacheGet(store, storageMode, k, now) IN
    /\ store' = r.store
    /\ lastOp' = [op |-> "get", key |-> k, value |-> r.value,
                  stale |-> /\ store[k] # NoItem
                            /\ store[k] # Corrupt
                            /\ OlderThan(store[k], now, CACHE_DURATION),
                  threw |-> r.threw]
    /\ UNCHANGED <<storageMode, written, nsets>>

OpClearOld ==
    /\ store' = SweepOutcome(store, storageMode, now).store
    /\ lastOp' = [op |-> "clearOld", key |-> "", value |-> Null, stale |-> FALSE,
                  threw |-> SweepOutcome(store, storageMode, now).threw]
    /\ UNCHANGED <<storageMode, written, nsets>>

CacheInit ==
    /\ now = 0
    /\ ticks = 0
    /\ store = EmptyStore
    /\ storageMode \in {"ok", "denied", "quota"}
    /\ written = [k \in CacheKeys |-> NoWrite]
    /\ lastOp = NoOp
    /\ nsets = 0
    /\ page = FullPage
    /\ srv = NoServer
    /\ PageInit

CacheNext ==
    \/ \E d \in ClockSteps : Tick(d) /\ UNCHANGED <<cacheVars, apiVars, pageVars, sideVars>>
    \/ \E k \in OpKeys, v \in OpValues :
           OpSet(k, v) /\ UNCHANGED <<clockVars, apiVars, pageVars, sideVars>>
    \/ \E k \in OpKeys : OpGet(k) /\ UNCHANGED <<clockVars, apiVars, pageVars, sideVars>>
    \/ OpClearOld /\ UNCHANGED <<clockVars, apiVars, pageVars, sideVars>>

vars == <<now, ticks, store, storageMode, written, lastOp, nsets,
          pc, mem, fetches, renders, dom, dl, asked, page, srv, started, loads,
          swept, pre, alt, calls>>

SpecCache == CacheInit /\ [][CacheNext]_vars


(***************************************************************************)
(* The download aggregator on its own, against every listing of Servers.   *)
(***************************************************************************)
Servers ==
    [npages : 0..MaxSrvPages, link : {"honest", "always", "never"},
     offset : 0..(Len(PagePatterns) - 1)]

\* What resp.json() may yield for the page asked: a syntax error, the page the
\* listing holds, JSON null, or an object in place of the array.
DownloadBodies ==
    {SyntaxError, Json(ServedPage(srv, dl.page)), Json(Null),
     Json(Obj([message |-> Str("Not Found")]))}

\* Clock steps of the page specifications: one millisecond and the TTL.
PageSteps == {1, CACHE_DURATION}

PipelineInit ==
    /\ now = 0
    /\ ticks = 0
    /\ store = EmptyStore
    /\ storageMode = "ok"
    /\ written = [k \in CacheKeys |-> NoWrite]
    /\ lastOp = NoOp
    /\ nsets = 0

DownloadsInit ==
    /\ PipelineInit
    /\ page = FullPage
    /\ srv \in Servers
    /\ PageInit

DownloadsNext ==
    \/ PageStart({"total_downloads"})
    \/ FetchSettles("total_downloads")
    \/ JsonSettles("total_downloads", DownloadBodies)
    \/ TimerFires
    \/ Reload
    \/ Tick(CACHE_DURATION + 1) /\ UNCHANGED <<cacheVars, apiVars, pageVars, sideVars>>

SpecDownloads == DownloadsInit /\ [][DownloadsNext]_vars

(***************************************************************************)
(* loadRepoStats on its own, against every payload of StatsBodies and on   *)
(* every page of StatsPages.                                               *)
(***************************************************************************)
RS == "repo_stats"

\* A repository payload; a count that is undefined is absent from the JSON.
RepoData(stars, forks, watchers, issues) ==
    JsonRoundTrip(Obj([stargazers_count |-> stars, forks_count |-> forks,
                       subscribers_count |-> watchers, open_issues_count |-> issues]))

StatsBodies ==
    {SyntaxError, Json(Null)} \cup
    {Json(RepoData(st, fk, w, i)) :
        st \in {Undefined, Num(950), Num(10200)}, fk \in {Undefined, Num(879)},
        w \in {Undefined, Num(168)}, i \in {Undefined, Num(0), Num(12)}}

\* The full page with dashes, the full page whose markup already shows the
\* fallback figures, and a page without two of the targets.
StatsPages ==
    {FullPage,
     [here |-> AllIds, text |-> FallbackText],
     [here |-> AllIds \ {"hero-forks", "detailed-watchers"}, text |-> DashText]}

StatsInit ==
    /\ PipelineInit
    /\ page \in StatsPages
    /\ srv = NoServer
    /\ PageInit

StatsNext ==
    \/ PageStart({RS})
    \/ FetchSettles(RS)
    \/ JsonSettles(RS, StatsBodies)
    \/ TimerFires
    \/ Reload
    \/ \E d \in PageSteps : Tick(d) /\ UNCHANGED <<cacheVars, apiVars, pageVars, sideVars>>

SpecStats == StatsInit /\ [][StatsNext]_vars

(***************************************************************************)
(* The whole page: the DOMContentLoaded handler starts the six loads, the  *)
(* requests settle in any order, swap timers fire, the user reloads.  The  *)
(* clock moves between page loads.                                         *)
(***************************************************************************)
\* The promise GitHubAPI.init() returns: await Promise.all([...]) rejects as
\* soon as one load rejects and fulfils when all six have fulfilled.
InitPromise ==
    IF \E c \in Cats : pc[c] = "rejected" THEN "rejected"
    ELSE IF \A c \in Cats : pc[c] \in {"hit", "ok", "failed"} THEN "fulfilled"
    ELSE "pending"

ShapeError == Json(Obj([message |-> Str("API rate limit exceeded")]))

PageStatsBodies ==
    {SyntaxError,
     Json(RepoData(Num(950), Num(879), Num(168), Num(12))),
     Json(RepoData(Num(950), Num(879), Num(168), Undefined))}

ACommit ==
    Obj([sha |-> Str("0123456789abcdef"),
         commit |-> Obj([message |-> Str("Fix scan\n\nDetails"),
                         author |-> Obj([name |-> Str("horsicq"),
                                         date |-> Str("2026-01-01T00:00:00Z")])]),
         author |-> Null])

AContributor ==
    Obj([login |-> Str("horsicq"), avatar_url |-> Str("a.png"),
         contributions |-> Num(4000), html_url |-> Str("https://github.com/horsicq")])

ARelease ==
    Obj([tag_name |-> Str("3.10"), name |-> Str("DIE 3.10"),
         published_at |-> Str("2026-01-01T00:00:00Z"), html_url |-> Str("r.html")])

PageBodies(cat) ==
    CASE cat = "repo_stats" -> PageStatsBodies
      [] cat = "total_downloads" -> {SyntaxError, Json(ServedPage(srv, dl.page))}
      [] cat = "commits" -> {SyntaxError, ShapeError, Json(Arr(<<ACommit>>))}
      [] cat = "contributors" -> {SyntaxError, ShapeError, Json(Arr(<<AContributor>>))}
      [] cat = "languages" ->
           {SyntaxError, Json(Null), Json(LangMap(<<"C", "C++">>, <<1, 2>>))}
      [] OTHER -> {SyntaxError, Json(Null), Json(ARelease)}

\* A listing of one page: one release, which has no assets yet.
PageServer == [npages |-> 1, link |-> "honest", offset |-> 1]

\* A page with the containers and two of the numeric targets.
SmallPage ==
    [here |-> ContainerIds \cup {"detailed-issues", "detailed-downloads"},
     text |-> DashText]

Init ==
    /\ PipelineInit
    /\ page = SmallPage
    /\ srv = PageServer
    /\ PageInit

\* Between two page loads the TTL may run out: the clock takes one step past it
\* before the reloaded page starts.
BetweenLoads ==
    /\ ~started
    /\ ticks < loads - 1
    /\ Tick(CACHE_DURATION + 1)
    /\ UNCHANGED <<cacheVars, apiVars, pageVars, sideVars>>

Next ==
    \/ DOMContentLoaded
    \/ \E c \in Cats : FetchSettles(c)
    \/ \E c \in Cats : JsonSettles(c, PageBodies(c))
    \/ TimerFires
    \/ Reload
    \/ BetweenLoads

Spec == Init /\ [][Next]_vars

(***************************************************************************)
(* Claims about the cache.                                                 *)
(***************************************************************************)
\* Two values are the same JSON document.
SameJson(a, b) == JsonRoundTrip(a) = JsonRoundTrip(b)

\* The last call was get(key), made no more than the TTL after set(key, v).
GetWithinTTL ==
    /\ lastOp.op = "get"
    /\ storageMode = "ok"
    /\ written[lastOp.key] # NoWrite
    /\ now - written[lastOp.key].at <= CACHE_DURATION

\* C2: with storage working, a get(key) made no more than 30 minutes after
\* set(key, value) returns the value that was stored, whatever other keys were
\* set, read or swept in between.
C2_GetAfterSetReturnsStored ==
    GetWithinTTL => SameJson(lastOp.value, written[lastOp.key].value)

\* C2 witness: a get exactly 30 minutes after the set returned the stored object.
C2_Witness ==
    /\ GetWithinTTL
    /\ now - written[lastOp.key].at = CACHE_DURATION
    /\ IsObj(lastOp.value)
    /\ Get(lastOp.value, "stars") = Num(7)

\* C3: with storage working, a get(key) that finds an entry older than the TTL
\* returns null and leaves no entry under the key.
C3_StaleGetDeletes ==
    (lastOp.op = "get" /\ lastOp.stale /\ storageMode = "ok")
        => (lastOp.value = Null /\ store[lastOp.key] = NoItem)

\* C3 witness: a get one millisecond past the TTL found the entry and removed it.
C3_Witness ==
    /\ lastOp.op = "get"
    /\ lastOp.stale
    /\ storageMode = "ok"
    /\ written[lastOp.key] # NoWrite
    /\ now - written[lastOp.key].at = CACHE_DURATION + 1
    /\ store[lastOp.key] = NoItem


(***************************************************************************)
(* Claims about the download aggregator.                                   *)
(***************************************************************************)
\* The text a numeric target shows once every pending swap timer has fired.
FinalText(d, id) ==
    LET idx == {i \in 1..Len(d.timers) : d.timers[i].id = id}
    IN  IF idx = {} THEN d.text[id]
        ELSE d.timers[CHOOSE i \in idx : \A j \in idx : j <= i].value

DL == "total_downloads"

PlaceholderShown(d, here) ==
    /\ "hero-downloads" \in here => FinalText(d, "hero-downloads") = "1M+"
    /\ "detailed-downloads" \in here => FinalText(d, "detailed-downloads") = "1,000,000"

\* C8: the step that ends the aggregator in its catch block (a failed request
\* or an unreadable page, on page 1 or later) leaves totalDownloads at the
\* placeholder 1000000, renders it, and writes nothing under 'total_downloads';
\* the cache entry is written only by the step that ends the loop without failure.
C8_FailureDiscardsPartialSum ==
    [][ /\ (pc'[DL] = "failed" /\ pc[DL] # "failed")
           => /\ mem'[DL] = Num(1000000)
              /\ PlaceholderShown(dom', page.here)
              /\ store'[DL] = store[DL]
              /\ store'[DL] = NoItem
        /\ (store'[DL] # store[DL] /\ store'[DL] # NoItem)
           => /\ pc'[DL] = "ok"
              /\ mem'[DL] = Num(dl'.total)
              /\ Get(store'[DL], "data") = Num(dl'.total) ]_vars

\* C8 witness: the request for page 3 failed after two pages had been summed.
C8_Witness ==
    /\ pc[DL] = "failed"
    /\ Len(asked) = 3
    /\ dl.total > 0
    /\ mem[DL] = Num(1000000)
    /\ store[DL] = NoItem
    /\ dom.timers = <<>>
    /\ dom.text["detailed-downloads"] = "1,000,000"

\* C9: the aggregator asks for pages 1, 2, ... and never for a page above 20,
\* whatever the listing and its Link headers; while it waits it waits for the
\* page it last asked, and a waiting aggregator can always take its next step.
C9_AtMostTwentyPages ==
    /\ Len(asked) <= 20
    /\ \A i \in 1..Len(asked) : asked[i] = i
    /\ fetches[DL] = Len(asked)
    /\ pc[DL] \in {"fetch", "json"}
           => /\ dl.page = Len(asked)
              /\ ENABLED (FetchSettles(DL) \/ JsonSettles(DL, DownloadBodies))

\* C9 witness: twenty pages were asked of a listing that has a non-empty page
\* 21 and signals rel="next" on page 20, and the aggregator has finished.
C9_Witness ==
    /\ pc[DL] = "ok"
    /\ Len(asked) = 20
    /\ srv.npages >= 21
    /\ ServedNext(srv, 20)

\* The totals of the page patterns, counted by hand.
PatternTotals == <<8, 2, 0>>

RECURSIVE ListingTotal(_, _)
ListingTotal(sv, k) ==
    IF k = 0 THEN 0
    ELSE ListingTotal(sv, k - 1) +
         (IF k > sv.npages THEN 0
          ELSE PatternTotals[((k + sv.offset) % Len(PatternTotals)) + 1])

\* The first page that is empty or whose response has no rel="next".
EndsListing(sv, p) == p > sv.npages \/ ~ServedNext(sv, p)
FirstEnd(sv) == CHOOSE p \in 1..(MaxSrvPages + 2) :
                   EndsListing(sv, p) /\ \A q \in 1..(p - 1) : ~EndsListing(sv, q)

\* C10 as stated: a failure-free run stops at the first page that is empty or
\* has no next indicator, and returns the sum over the pages 1..that page.
C10_StopsAtFirstEnd ==
    pc[DL] = "ok"
        => /\ asked = [i \in 1..FirstEnd(srv) |-> i]
           /\ mem[DL] = Num(ListingTotal(srv, FirstEnd(srv)))

\* C10 amended: a failure-free run asks for pages 1..k in order, where k is the
\* first page that is empty or has no next indicator, or 20 if that page lies
\* beyond page 20, and returns the sum of download_count over pages 1..k.
C10_StopsAtFirstEndOrLimit ==
    pc[DL] = "ok"
        => LET k == IF FirstEnd(srv) < 20 THEN FirstEnd(srv) ELSE 20 IN
           /\ asked = [i \in 1..k |-> i]
           /\ mem[DL] = Num(ListingTotal(srv, k))
           /\ Get(store[DL], "data") = Num(ListingTotal(srv, k))

\* C10 witness: three pages summed, the next indicator absent on page 3.
C10_Witness ==
    /\ pc[DL] = "ok"
    /\ srv.npages = 3
    /\ srv.link = "honest"
    /\ asked = <<1, 2, 3>>
    /\ mem[DL] = Num(10)


(***************************************************************************)
(* Claims about loadRepoStats.                                             *)
(***************************************************************************)
\* What the stat targets show for stars 10200, forks 879, watchers 168 and
\* openIssues 0.
FallbackShown(d, here) ==
    /\ "hero-stars" \in here => FinalText(d, "hero-stars") = "10.2k+"
    /\ "hero-forks" \in here => FinalText(d, "hero-forks") = "879+"
    /\ "detailed-stars" \in here => FinalText(d, "detailed-stars") = "10,200"
    /\ "detailed-forks" \in here => FinalText(d, "detailed-forks") = "879"
    /\ "detailed-watchers" \in here => FinalText(d, "detailed-watchers") = "168"
    /\ "detailed-issues" \in here => FinalText(d, "detailed-issues") = "0"

\* C5 as stated: a load that ended in the catch block, whether the request
\* failed or the payload lacked a field, leaves the fallback figures on display
\* and no entry under 'repo_stats', so that the next load within the TTL asks
\* the network again and no load ever ends with an exception.
C5_MalformedLikeFailedRequest ==
    /\ pc[RS] = "failed"
          => /\ mem[RS] = FallbackStats
             /\ FallbackShown(dom, page.here)
             /\ store[RS] = NoItem
    /\ pc[RS] # "rejected"

\* C6: the step in which the repository request fails (fetch rejected or
\* resp.ok false) sets repoStats to stars 10200, forks 879, watchers 168,
\* openIssues 0 and leaves every stat target the page has showing these figures
\* or with its last pending swap set to them.
C6_FailedRequestRendersFallback ==
    [][ (pc[RS] = "fetch" /\ pc'[RS] = "failed")
           => /\ mem'[RS] = Obj([stars |-> Num(10200), forks |-> Num(879),
                                 watchers |-> Num(168), openIssues |-> Num(0)])
              /\ renders'[RS] = 1
              /\ FallbackShown(dom', page.here) ]_vars

\* C6 witness: the request failed on a cache miss and the swaps have fired.
C6_Witness ==
    /\ pc[RS] = "failed"
    /\ fetches[RS] = 1
    /\ renders[RS] = 1
    /\ store[RS] = NoItem
    /\ page = FullPage
    /\ dom.timers = <<>>
    /\ dom.text["hero-stars"] = "10.2k+"
    /\ dom.text["detailed-stars"] = "10,200"
    /\ dom.text["detailed-issues"] = "0"


(***************************************************************************)
(* Claims about the six loads together.                                    *)
(***************************************************************************)
\* The entry under a key is fresh at time t.
Fresh(e, t) ==
    /\ e # NoItem
    /\ e # Corrupt
    /\ t - Get(e, "timestamp").n <= 30 * 60 * 1000

\* C1: in the step that starts the six loads, a load whose key holds a fresh
\* entry adopts the entry's data, calls its render once and issues no request,
\* and a load whose key holds none issues one; after that only the aggregator,
\* waiting for a page it asked on a miss, issues further requests.
C1_FreshEntryServedFromCache ==
    [][ /\ (~started /\ started')
           => \A c \in Cats :
                 IF Fresh(store[c], now)
                 THEN /\ fetches'[c] = 0
                      /\ mem'[c] = Get(store[c], "data")
                      /\ renders'[c] = 1
                      /\ pc'[c] \in {"hit", "rejected"}
                 ELSE /\ fetches'[c] = 1
                      /\ pc'[c] = "fetch"
        /\ (started /\ started')
           => \A c \in Cats :
                 fetches'[c] # fetches[c] => (c = DL /\ pc[c] = "json" /\ pc'[c] = "fetch")
      ]_vars

\* C1 witness: on the second page load all six loads were served from cache,
\* the download total being the cached 0.
C1_Witness ==
    /\ loads = 2
    /\ started
    /\ \A c \in Cats : pc[c] = "hit" /\ fetches[c] = 0 /\ renders[c] = 1
    /\ mem[DL] = Num(0)
    /\ IsArr(mem["commits"])

Waiting(c) == pc[c] \in {"fetch", "json"}

\* C4 as stated: no load ends with an exception, so init() never rejects, and
\* a load that waits for the network can take its next step whatever the
\* other five have done.
C4_InitNeverRejects ==
    /\ InitPromise # "rejected"
    /\ \A c \in Cats :
          Waiting(c) => ENABLED (FetchSettles(c) \/ JsonSettles(c, PageBodies(c)))

Lists == {"commits", "contributors", "languages", "latest_release"}

\* C7 as stated: a failed request of any category but the primary stats leaves
\* the category's in-memory value and the display untouched.
C7_OnlyStatsFallBack ==
    [][ \A c \in Cats \ {RS} :
           (pc[c] = "fetch" /\ pc'[c] = "failed") => (mem'[c] = mem[c] /\ dom' = dom)
      ]_vars

\* C7 amended: a failed request leaves the in-memory value and the display
\* untouched for commits, contributors, languages and latest release; the
\* download total is set to the placeholder 1000000 and rendered, as the
\* primary stats are set to their fallback.
C7_StatsAndDownloadsFallBack ==
    [][ /\ \A c \in Lists :
              (pc[c] = "fetch" /\ pc'[c] = "failed") => (mem'[c] = mem[c] /\ dom' = dom)
        /\ (pc[DL] = "fetch" /\ pc'[DL] = "failed")
              => (mem'[DL] = Num(1000000) /\ PlaceholderShown(dom', page.here))
        /\ (pc[RS] = "fetch" /\ pc'[RS] = "failed")
              => (mem'[RS] = FallbackStats /\ FallbackShown(dom', page.here))
      ]_vars

\* C7 witness: the commits request and the downloads request have failed; the
\* commit list is the page's markup, the download total shows the placeholder.
C7_Witness ==
    /\ pc["commits"] = "failed"
    /\ mem["commits"] = Null
    /\ dom.html["commits-list"] = Static
    /\ pc[DL] = "failed"
    /\ asked = <<1>>
    /\ mem[DL] = Num(1000000)
    /\ dom.text["detailed-downloads"] = "1,000,000"

(***************************************************************************)
(* updateEl on its own: direct calls on two targets, with the swap timers  *)
(* firing at any moment between them.                                      *)
(***************************************************************************)
RenderIds == {"detailed-stars", "detailed-forks"}
RenderValues == {"10,200", "879"}

\* A page whose markup shows a dash, and one that already shows a value.
RenderPages ==
    {FullPage,
     [here |-> AllIds,
      text |-> [id \in NumIds |-> IF id = "detailed-forks" THEN "879" ELSE "-"]]}

CallUpdateEl(id, value) ==
    /\ Len(calls) < MaxCalls
    /\ calls' = Append(calls, [id |-> id, value |-> value])
    /\ dom' = UpdateEl(dom, page.here, id, value)
    /\ UNCHANGED <<clockVars, cacheVars, pc, mem, fetches, renders, dl, asked,
                   pageVars, swept, pre, alt>>

RenderInit ==
    /\ now = 0
    /\ ticks = 0
    /\ store = EmptyStore
    /\ storageMode = "ok"
    /\ written = [k \in CacheKeys |-> NoWrite]
    /\ lastOp = NoOp
    /\ nsets = 0
    /\ page \in RenderPages
    /\ srv = NoServer
    /\ PageInit

RenderNext ==
    \/ \E id \in RenderIds, value \in RenderValues : CallUpdateEl(id, value)
    \/ TimerFires

SpecRender == RenderInit /\ [][RenderNext]_vars

\* The call made by this step repeats, on the same target, the value of the
\* previous call on that target.
RepeatsLastCall ==
    /\ Len(calls') = Len(calls) + 1
    /\ LET c == calls'[Len(calls')]
           earlier == {i \in 1..Len(calls) : calls[i].id = c.id}
       IN  /\ earlier # {}
           /\ calls[CHOOSE i \in earlier : \A j \in earlier : j <= i].value = c.value

\* C11 as stated: a second updateEl call with the same value on the same
\* target changes no style and sets no timer, whenever it is made, and the
\* text the target settles on is that value.
C11_SecondCallStartsNoFade ==
    [][RepeatsLastCall =>
          LET c == calls'[Len(calls')] IN
          /\ dom'.style = dom.style
          /\ dom'.timers = dom.timers
          /\ FinalText(dom', c.id) = c.value]_vars

(***************************************************************************)
(* The cache over a storage that fails: direct calls of get, set and       *)
(* clearOld with localStorage denied, full or read-only, or holding an     *)
(* item that JSON.parse rejects.                                           *)
(***************************************************************************)
\* What an earlier visit, or another script, left in localStorage.
FaultStores ==
    {[EmptyStore EXCEPT !["repo_stats"] = Corrupt],
     [EmptyStore EXCEPT !["repo_stats"] = EntryText(Num(7), 0)],
     [EmptyStore EXCEPT !["repo_stats"] = Corrupt,
                        !["total_downloads"] = EntryText(Num(7), 0)]}

FaultsInit ==
    /\ now = 0
    /\ ticks = 0
    /\ store \in FaultStores
    /\ storageMode \in {"ok", "denied", "quota", "readonly"}
    /\ written = [k \in CacheKeys |-> NoWrite]
    /\ lastOp = NoOp
    /\ nsets = 0
    /\ page = FullPage
    /\ srv = NoServer
    /\ PageInit

FaultsNext ==
    \/ \E d \in ClockSteps : Tick(d) /\ UNCHANGED <<cacheVars, apiVars, pageVars, sideVars>>
    \/ \E k \in OpKeys :
           OpSet(k, Num(7)) /\ UNCHANGED <<clockVars, apiVars, pageVars, sideVars>>
    \/ \E k \in OpKeys : OpGet(k) /\ UNCHANGED <<clockVars, apiVars, pageVars, sideVars>>
    \/ OpClearOld /\ UNCHANGED <<clockVars, apiVars, pageVars, sideVars>>

SpecFaults == FaultsInit /\ [][FaultsNext]_vars

IsEntry(item) == item # NoItem /\ item # Corrupt

\* getItem, JSON.parse or removeItem throws inside get(k).
GetFails(k) ==
    \/ storageMode = "denied"
    \/ store[k] = Corrupt
    \/ /\ storageMode = "readonly"
       /\ IsEntry(store[k])
       /\ OlderThan(store[k], now, CACHE_DURATION)

\* setItem throws inside set.
SetFails == storageMode \in {"denied", "quota", "readonly"}

\* Object.keys, JSON.parse or removeItem throws inside clearOld at key k.
SweepFails(k) ==
    \/ storageMode = "denied"
    \/ store[k] = Corrupt
    \/ /\ storageMode = "readonly"
       /\ IsEntry(store[k])
       /\ OlderThan(store[k], now, RETENTION)

\* C12: when getItem, setItem, removeItem or JSON.parse throws, get returns
\* null and leaves the storage as it was, set leaves the storage as it was,
\* clearOld leaves the failing entry and still sweeps the others, and none
\* of the three throws to its caller.
C12_StorageFailuresAbsorbed ==
    [][/\ \A k \in OpKeys :
            OpGet(k) =>
              /\ ~lastOp'.threw
              /\ GetFails(k) => lastOp'.value = Null /\ store' = store
       /\ \A k \in OpKeys :
            OpSet(k, Num(7)) =>
              /\ ~lastOp'.threw
              /\ SetFails => store' = store
       /\ OpClearOld =>
              /\ ~lastOp'.threw
              /\ \A k \in CacheKeys :
                   IF SweepFails(k) THEN store'[k] = store[k]
                   ELSE IsEntry(store[k]) /\ OlderThan(store[k], now, RETENTION)
                          => store'[k] = NoItem]_vars

\* get has met an item that JSON.parse rejects and reported a miss.
C12_Witness ==
    /\ lastOp.op = "get"
    /\ store[lastOp.key] = Corrupt
    /\ lastOp.value = Null
    /\ ~lastOp.threw

(***************************************************************************)
(* One page load over what earlier visits left in localStorage: entries    *)
(* older than the retention window, exactly as old, past the TTL, fresh.   *)
(***************************************************************************)
SweepStart == 2 * RETENTION

\* The times at which an earlier visit wrote an entry.
WrittenAt ==
    {SweepStart - RETENTION - 1, SweepStart - RETENTION,
     SweepStart - CACHE_DURATION - 1, SweepStart - 1}

\* What a successful load of an earlier visit handed to CacheManager.set.
EarlierValue(k) ==
    IF k = "repo_stats"
    THEN Obj([stars |-> Num(950), forks |-> Num(879), watchers |-> Num(168),
              openIssues |-> Num(12)])
    ELSE Num(8)

SweepKeys == {"repo_stats", "total_downloads"}

SweepInit ==
    /\ now = SweepStart
    /\ ticks = 0
    /\ written \in [CacheKeys ->
                      {NoWrite} \cup {[value |-> EarlierValue(k), at |-> t] :
                                          k \in SweepKeys, t \in WrittenAt}]
    /\ \A k \in CacheKeys :
          written[k] # NoWrite => k \in SweepKeys /\ written[k].value = EarlierValue(k)
    /\ store = [k \in CacheKeys |->
                  IF written[k] = NoWrite THEN NoItem
                  ELSE EntryText(written[k].value, written[k].at)]
    /\ storageMode = "ok"
    /\ lastOp = NoOp
    /\ nsets = 0
    /\ page = SmallPage
    /\ srv = PageServer
    /\ PageInit

SweepNext ==
    \/ DOMContentLoaded
    \/ \E c \in Cats : FetchSettles(c)
    \/ \E c \in Cats : JsonSettles(c, PageBodies(c))
    \/ TimerFires

SpecSweep == SweepInit /\ [][SweepNext]_vars

\* C13: clearOld runs once per page load, in the DOMContentLoaded handler,
\* and that run removes exactly the entries more than 24 hours old: an entry
\* newer than that stays, also when it is past the 30-minute TTL.
C13_SweepOnceByRetention ==
    [][/\ swept'.n = (IF started' THEN 1 ELSE 0)
       /\ swept'.n # swept.n =>
            /\ ~started /\ started'
            /\ swept'.removed =
                 {k \in CacheKeys : /\ IsEntry(store[k])
                                    /\ now - Get(store[k], "timestamp").n > RETENTION}]_vars

\* The page has started; its sweep removed one entry and kept another that
\* was already past the TTL.
C13_Witness ==
    /\ started
    /\ swept.n = 1
    /\ swept.removed # {}
    /\ \E k \in CacheKeys \ swept.removed :
          /\ written[k] # NoWrite
          /\ now - written[k].at > CACHE_DURATION

(***************************************************************************)
(* The preloader in time.  Date.now() advances in steps, and never past    *)
(* the moment a pending timer is due: a timer's callback runs at the time  *)
(* it was set for.  The requests the handler starts stay in flight.        *)
(***************************************************************************)
PreSteps == {500}

Due(p, t) == {i \in 1..Len(p.timers) : p.timers[i].at <= t}

\* Of the timers that are due, the one set for the earliest time; among
\* those, the one that was set first.
NextDue(p, t) ==
    CHOOSE i \in Due(p, t) :
        \A j \in Due(p, t) :
            \/ p.timers[i].at < p.timers[j].at
            \/ p.timers[i].at = p.timers[j].at /\ i <= j

Without(seq, i) == SubSeq(seq, 1, i - 1) \o SubSeq(seq, i + 1, Len(seq))

ScriptRuns ==
    /\ pre.phase = "parsing"
    /\ pre' = Evaluate(pre, now)
    /\ UNCHANGED <<clockVars, cacheVars, apiVars, pageVars, swept, alt, calls>>

\* The window's 'load' event.
LoadEvent ==
    /\ pre.phase = "interactive"
    /\ Due(pre, now) = {}
    /\ pre' = RunListeners([pre EXCEPT !.phase = "complete", !.loadAt = now], 1, now)
    /\ UNCHANGED <<clockVars, cacheVars, apiVars, pageVars, swept, alt, calls>>

PreTimerFires ==
    /\ Due(pre, now) # {}
    /\ LET i == NextDue(pre, now)
       IN  pre' = RunTimer([pre EXCEPT !.timers = Without(@, i)], pre.timers[i], now)
    /\ UNCHANGED <<clockVars, cacheVars, apiVars, pageVars, swept, alt, calls>>

Advance(d) ==
    /\ pre.phase # "parsing"
    /\ Due(pre, now) = {}
    /\ now + d <= MaxClock
    /\ LET ats == {pre.timers[i].at : i \in 1..Len(pre.timers)}
           soon == {t \in ats : t < now + d}
       IN  now' = IF soon = {} THEN now + d
                  ELSE CHOOSE t \in soon : \A u \in soon : t <= u
    /\ UNCHANGED <<ticks, cacheVars, apiVars, pageVars, sideVars>>

PreloaderInit ==
    /\ PipelineInit
    /\ page = SmallPage
    /\ srv = PageServer
    /\ pc = [c \in Cats |-> "idle"]
    /\ mem = [c \in Cats |-> Null]
    /\ fetches = [c \in Cats |-> 0]
    /\ renders = [c \in Cats |-> 0]
    /\ dom = FreshDom(page)
    /\ dl = IdleDl
    /\ asked = <<>>
    /\ started = FALSE
    /\ loads = 1
    /\ swept = NoSweep
    /\ \E markup \in {"none", "before", "after"} : pre = FreshPre(markup)
    /\ alt = AltIdle
    /\ calls = <<>>

PreloaderNext ==
    \/ ScriptRuns
    \/ pre.phase = "evaluated" /\ DOMContentLoaded
    \/ LoadEvent
    \/ PreTimerFires
    \/ \E d \in PreSteps : Advance(d)

SpecPreloader == PreloaderInit /\ [][PreloaderNext]_vars

\* C14 as stated: once the preloader is hidden it stays hidden and the hide
\* side effects (adding 'hidden', removing 'loading', scheduling the removal)
\* do not run again.
C14_HiddenOnce ==
    [][pre.hidden => pre'.hidden /\ pre'.hides = pre.hides]_vars

\* The time the claim C15 gives for the transition, from Preloader's start
\* time and the time of the load event so far (-1: it has not fired).
HideTime(p) ==
    LET floor == p.startTime + PRELOADER_MIN_TIME
        ceiling == p.startTime + PRELOADER_MAX_TIME
        onLoad == IF p.loadAt > floor THEN p.loadAt ELSE floor
    IN  IF p.loadAt = -1 \/ onLoad > ceiling THEN ceiling ELSE onLoad

\* C15 as stated: with s the start time of Preloader, the preloader is hidden
\* at the earlier of max(L, s + 1500) and s + 5000: not before s + 1500, and
\* by s + 5000 also when the load event never fires.
C15_HiddenOnTime ==
    pre.startTime # -1 =>
        /\ pre.hidden => pre.hiddenAt = HideTime(pre)
        /\ pre.hidden => pre.hiddenAt >= pre.startTime + PRELOADER_MIN_TIME
        /\ now > pre.startTime + PRELOADER_MAX_TIME => pre.hidden

(***************************************************************************)
(* loadCommits and loadContributors on their own, against the lists the    *)
(* remote repository may answer with.                                      *)
(***************************************************************************)
COMMITS_PER_PAGE == 8
CONTRIBUTORS_PER_PAGE == 12

RECURSIVE Repeat(_, _)
Repeat(str, n) == IF n = 0 THEN "" ELSE str \o Repeat(str, n - 1)

Sha40 == "0123456789abcdef0123456789abcdef01234567"
Line120 == Repeat("0123456789", 12)

\* The messages of the remote commits: missing, null, empty, one short line,
\* one long line, several lines, a long first line, an empty first line.
Messages ==
    {Undefined, Null, Str(""), Str("Fix scan"), Str(Line120),
     Str("Fix scan\n\nDetails"), Str(Line120 \o "\nDetails"), Str("\nDetails")}

\* A commit of the remote listing; author is the linked account or null.
RemoteCommit(sha, message, author) ==
    JsonRoundTrip(Obj([sha |-> Str(sha),
         commit |-> Obj([message |-> message,
                         author |-> Obj([name |-> Str("horsicq"),
                                         date |-> Str("2026-01-01T00:00:00Z")])]),
         author |-> author]))

Linked == Obj([login |-> Str("octocat"), avatar_url |-> Str("o.png")])

RemoteCommits ==
    {RemoteCommit(sha, m, au) : sha \in {Sha40, "abc"}, m \in Messages,
                                au \in {Null, Linked}}

\* The commit listings: one commit of every kind, a list of three, and lists
\* of 0, 8 and MaxCommits equal commits.
CommitLists ==
    {Arr(<<c>>) : c \in RemoteCommits} \cup
    {Arr(<<RemoteCommit(Sha40, Str(Line120), Null),
           RemoteCommit("abc", Undefined, Linked),
           RemoteCommit(Sha40, Str("Fix scan\n\nDetails"), Linked)>>)} \cup
    {Arr([i \in 1..n |-> ACommit]) : n \in {0, COMMITS_PER_PAGE, MaxCommits}}

ContributorLists ==
    {Arr([i \in 1..n |-> AContributor]) : n \in {1, CONTRIBUTORS_PER_PAGE, MaxContributors}}

ListCats == {"commits", "contributors"}

ListsInit ==
    /\ PipelineInit
    /\ page = SmallPage
    /\ \E cs \in CommitLists, ps \in ContributorLists :
          srv = [npages |-> 0, link |-> "never", offset |-> 0,
                 commits |-> cs, contributors |-> ps]
    /\ PageInit

ListsNext ==
    \/ PageStart(ListCats)
    \/ \E c \in ListCats : FetchSettles(c)
    \/ \E c \in ListCats : JsonSettles(c, {SyntaxError, ShapeError, Json(srv[c])})
    \/ Reload

SpecLists == ListsInit /\ [][ListsNext]_vars

\* The list a category holds in memory, in the cache and on the page.
HeldLists(c) ==
    (IF IsArr(mem[c]) THEN {mem[c]} ELSE {}) \cup
    (IF IsEntry(store[c]) THEN {Get(store[c], "data")} ELSE {}) \cup
    (LET el == IF c = "commits" THEN "commits-list" ELSE "contributors-list"
     IN  IF dom.html[el] # Static THEN {dom.html[el].of} ELSE {})

\* C16 as stated: whatever the response holds, the commit list has at most 8
\* entries and the contributor list at most 12, in memory, in the cache and
\* as rendered.
C16_ListsAreCut ==
    /\ \A v \in HeldLists("commits") : Len(v.a) <= COMMITS_PER_PAGE
    /\ \A v \in HeldLists("contributors") : Len(v.a) <= CONTRIBUTORS_PER_PAGE

IsPrefix(m, raw) == Len(m) <= Len(raw) /\ SubSeq(raw, 1, Len(m)) = m

\* m is the first line of raw, cut to at most 80 characters.
FirstLineCut(m, raw) ==
    /\ IsPrefix(m, raw)
    /\ Len(m) <= 80
    /\ \A i \in 1..Len(m) : SubSeq(m, i, i) # "\n"
    /\ Len(m) < 80 => Len(m) = Len(raw) \/ SubSeq(raw, Len(m) + 1, Len(m) + 1) = "\n"

\* The stored commit e is the claimed normalisation of the remote commit c.
NormalizedAs(e, c) ==
    LET raw == Get(Get(c, "commit"), "message")
    IN  /\ FirstLineCut(Get(e, "message").s, IF raw.t = "str" THEN raw.s ELSE "")
        /\ IsPrefix(Get(e, "sha").s, Get(c, "sha").s)
        /\ Len(Get(e, "sha").s) = (IF Len(Get(c, "sha").s) < 7
                                   THEN Len(Get(c, "sha").s) ELSE 7)
        /\ Get(e, "author") =
             (IF IsObj(Get(c, "author")) THEN Get(Get(c, "author"), "login")
              ELSE Get(Get(Get(c, "commit"), "author"), "name"))

\* C17: every stored commit carries the first line of the raw message cut to
\* at most 80 characters (empty when the message is missing), the first 7
\* characters of the raw hash, and the linked account's login or else the raw
\* commit-author name; the stored list follows the response entry by entry.
C17_CommitsNormalized ==
    pc["commits"] = "ok" =>
        \A v \in HeldLists("commits") :
            /\ Len(v.a) = Len(srv.commits.a)
            /\ \A i \in 1..Len(v.a) : NormalizedAs(v.a[i], srv.commits.a[i])

\* The load has stored a 120-character one-line message cut to 80, under a
\* 40-character hash cut to 7, by an author without linked account.
C17_Witness ==
    /\ pc["commits"] = "ok"
    /\ Len(srv.commits.a) = 1
    /\ Get(Get(srv.commits.a[1], "commit"), "message") = Str(Line120)
    /\ Get(mem["commits"].a[1], "message") = Str(Repeat("0123456789", 8))
    /\ Get(mem["commits"].a[1], "sha") = Str("0123456")
    /\ Get(mem["commits"].a[1], "author") = Str("horsicq")

\* Value v is what the load of category k derives from the parsed response
\* data: the four counts, the sum over the pages asked, the normalised list.
DerivedFrom(k, data, v) ==
    CASE k = RS ->
           /\ IsObj(data)
           /\ v = JsonRoundTrip(Obj([stars |-> Get(data, "stargazers_count"),
                                     forks |-> Get(data, "forks_count"),
                                     watchers |-> Get(data, "subscribers_count"),
                                     openIssues |-> Get(data, "open_issues_count")]))
      [] k = DL -> v = Num(ListingTotal(srv, Len(asked)))
      [] OTHER -> /\ ~Normalize(k, data).threw
                  /\ v = JsonRoundTrip(Normalize(k, data).value)

AltFetchSettles ==
    /\ alt.pc = "fetch"
    /\ \E outcome \in Outcomes :
          alt' = [pc |-> IF outcome = "ok" THEN "json" ELSE "failed"]
    /\ UNCHANGED <<clockVars, cacheVars, apiVars, pageVars, swept, pre, calls>>

AltJsonSettles(bodies) ==
    /\ alt.pc = "json"
    /\ \E body \in bodies :
          LET r == AltParsed(dom, page.here, body)
          IN  /\ dom' = r.dom
              /\ alt' = [pc |-> IF r.threw THEN "failed" ELSE "ok"]
    /\ UNCHANGED <<clockVars, cacheVars, pc, mem, fetches, renders, dl, asked,
                   pageVars, swept, pre, calls>>

Repos ==
    {RepoData(Num(10200), Num(879), Num(168), Num(12)),
     RepoData(Num(950), Num(879), Num(168), Num(12)),
     RepoData(Num(950), Num(879), Num(168), Undefined)}

BothInit ==
    /\ PipelineInit
    /\ page = FullPage
    /\ \E r \in Repos :
          srv = [npages |-> 0, link |-> "never", offset |-> 0, repo |-> r]
    /\ PageInit

BothNext ==
    \/ PageStart({RS})
    \/ FetchSettles(RS)
    \/ JsonSettles(RS, {SyntaxError, Json(srv.repo)})
    \/ AltFetchSettles
    \/ AltJsonSettles({SyntaxError, Json(srv.repo)})
    \/ TimerFires
    \/ Reload

SpecBoth == BothInit /\ [][BothNext]_vars

\* Both requests have delivered the payload and every swap timer has fired.
BothSettled ==
    /\ pc[RS] \in {"ok", "hit"}
    /\ alt.pc = "ok"
    /\ dom.timers = <<>>

\* C19 as stated: once both stats requests have settled and the timers have
\* fired, the text of every target the two of them write is fixed by the
\* data, whichever request completed last: it is the text renderRepoStats
\* derives from the data and the text fetchGitHubStats derives from it.
C19_FinalTextOrderFree ==
    BothSettled =>
        \A i \in 1..Len(AltIds) :
            /\ dom.text[AltIds[i]] = AltText(srv.repo, i)
            /\ dom.text[AltIds[i]] =
                 StatText(mem[RS], CHOOSE j \in 1..Len(StatIds) : StatIds[j] = AltIds[i])

====
